---- MODULE Spec2Model ----
(***************************************************************************)
(* Model of libs/glm-binding/allocator.hpp: two STL allocator adapters     *)
(* over the single lua_Alloc reallocation callback.                        *)
(*                                                                         *)
(*   LuaCrtAllocator<T>          caches (l_alloc, l_ud), refreshed only by *)
(*                               Validate(L).                              *)
(*   InternalLuaCrtAllocator<T>  keeps the address of the global_State and *)
(*                               reads frealloc/ud from it on every call.  *)
(*                                                                         *)
(* The model keeps one adapter value of each kind.  The element type is an *)
(* input of each call (its size s): the converting constructors copy the   *)
(* fields verbatim to an adapter over any other element type.              *)
(* size_t is modelled SizeBits wide.                                       *)
(***************************************************************************)
EXTENDS Integers, Sequences, FiniteSets, TLC

\* ---------------------------------------------------------------- bounds
NHosts == 2          \* lua_State handles, each with its own global_State
NBlocks == 2         \* distinct non-null block addresses
SizeBits == 3        \* width of std::size_t

\* ------------------------------------------------------------- constants
NULL == 0
SIZE_MAX == 2^SizeBits - 1
ElemSizes == {3, 4}

Hosts == 1..NHosts
\* The allocator function a fresh state h is created with (lua_newstate), and
\* the one a memory profiler may put in its place; the opaque pointer that
\* goes with allocator function f is named f.
OwnFn(h) == h
Profiler == NHosts + 1
Fns == {OwnFn(h) : h \in Hosts} \cup {Profiler}
Blocks == 1..NBlocks
\* Element counts tried with element size s: none, one, the largest count
\* whose byte size fits and the first whose byte size does not.
Counts(s) == {0, 1, SIZE_MAX \div s, SIZE_MAX \div s + 1}

VARIABLES
  G,            \* G[h]: the global_State of host h, fields frealloc and ud
  crt,          \* the LuaCrtAllocator: fields l_alloc and l_ud
  internal,     \* the InternalLuaCrtAllocator: field _G (a host or NULL)
  noexceptOn,   \* TRUE iff LUA_ALLOC_NOEXCEPT expands to noexcept
  validated,    \* TRUE iff Validate wrote crt's fields last
  last          \* the operation performed last and what it did

vars == <<G, crt, internal, noexceptOn, validated, last>>

\* ------------------------------------------------------------------ host
\* One invocation of a non-null lua_Alloc function: the possible results.
\* nsize = 0 frees the block and yields null; otherwise the function yields
\* a block, or null when it cannot satisfy the request.
HostCallback(f, ud, block, osize, nsize) ==
  IF nsize = 0 THEN {NULL} ELSE {NULL} \cup Blocks

\* lua_getallocf(L, &ud): the pair currently registered with the host.
lua_getallocf(h) == [f |-> G[h].frealloc, ud |-> G[h].ud]

\* G(L): the global_State a lua_State belongs to.
G_of(h) == h

\* A call record of the host callback.
Call(f, ud, block, osize, nsize, ret) ==
  [fn |-> f, ud |-> ud, block |-> block, osize |-> osize, nsize |-> nsize,
   ret |-> ret]

\* Calling through a null function pointer is undefined: the call faults,
\* or comes back with an arbitrary value; no host callback runs.
InvokeNull ==
  {[exc |-> "crash", ret |-> NULL, calls |-> <<>>]} \cup
  {[exc |-> "none", ret |-> r, calls |-> <<>>] : r \in {NULL} \cup Blocks}

\* Call through the function pointer f.
Invoke(f, ud, block, osize, nsize) ==
  IF f = NULL THEN InvokeNull
  ELSE {[exc |-> "none", ret |-> r,
         calls |-> <<Call(f, ud, block, osize, nsize, r)>>] :
          r \in HostCallback(f, ud, block, osize, nsize)}

Thrown == {[exc |-> "bad_alloc", ret |-> NULL, calls |-> <<>>]}

\* ------------------------------------------------------- LuaCrtAllocator
LuaCrtAllocator_default == [l_alloc |-> NULL, l_ud |-> NULL]

LuaCrtAllocator_from(h) ==
  [l_alloc |-> lua_getallocf(h).f, l_ud |-> lua_getallocf(h).ud]

LuaCrtAllocator_copy(o) == [l_alloc |-> o.l_alloc, l_ud |-> o.l_ud]

Crt_Validate_StaleUd(c, h) == [l_alloc |-> lua_getallocf(h).f, l_ud |-> c.l_ud]

Crt_Validate(c, h) ==
  [l_alloc |-> lua_getallocf(h).f, l_ud |-> lua_getallocf(h).ud]

Crt_realloc_Unguarded(c, block, osize, nsize) ==
  Invoke(c.l_alloc, c.l_ud, block, osize, nsize)

Crt_realloc(c, block, osize, nsize) ==
  IF c.l_alloc = NULL THEN Thrown
  ELSE Invoke(c.l_alloc, c.l_ud, block, osize, nsize)

\* What allocate makes of the outcome r of its realloc call.
Crt_allocate_result_NullReturned(r) ==
  IF r.exc = "crash"
  THEN [outcome |-> "crash", result |-> NULL, calls |-> r.calls]
  ELSE IF r.exc = "none"
  THEN [outcome |-> "returned", result |-> r.ret, calls |-> r.calls]
  ELSE [outcome |-> "bad_alloc", result |-> NULL, calls |-> r.calls]

Crt_allocate_result(r) ==
  IF r.exc = "crash"
  THEN [outcome |-> "crash", result |-> NULL, calls |-> r.calls]
  ELSE IF r.exc = "none" /\ r.ret # NULL
  THEN [outcome |-> "returned", result |-> r.ret, calls |-> r.calls]
  ELSE [outcome |-> "bad_alloc", result |-> NULL, calls |-> r.calls]

Crt_allocate_NoDivision(c, s, n) ==
  IF n <= SIZE_MAX
  THEN {Crt_allocate_result(r) :
          r \in Crt_realloc(c, NULL, 0, (n * s) % 2^SizeBits)}
  ELSE {[outcome |-> "bad_alloc", result |-> NULL, calls |-> <<>>]}

Crt_allocate_CountForBytes(c, s, n) ==
  IF n <= SIZE_MAX \div s
  THEN {Crt_allocate_result(r) : r \in Crt_realloc(c, NULL, 0, n)}
  ELSE {[outcome |-> "bad_alloc", result |-> NULL, calls |-> <<>>]}

Crt_allocate(c, s, n) ==
  IF n <= SIZE_MAX \div s
  THEN {Crt_allocate_result(r) :
          r \in Crt_realloc(c, NULL, 0, (n * s) % 2^SizeBits)}
  ELSE {[outcome |-> "bad_alloc", result |-> NULL, calls |-> <<>>]}

\* What deallocate makes of the outcome r of its realloc call: the value is
\* dropped; an exception leaving a noexcept function ends the program.
Crt_deallocate_result(r) ==
  IF r.exc = "crash"
  THEN [outcome |-> "crash", result |-> NULL, calls |-> r.calls]
  ELSE IF r.exc = "bad_alloc"
  THEN [outcome |-> IF noexceptOn THEN "terminate" ELSE "bad_alloc",
        result |-> NULL, calls |-> r.calls]
  ELSE [outcome |-> "returned", result |-> NULL, calls |-> r.calls]

Crt_deallocate_NullBlock(c, s, p, n) ==
  {Crt_deallocate_result(r) : r \in Crt_realloc(c, NULL, n, 0)}

Crt_deallocate(c, s, p, n) ==
  {Crt_deallocate_result(r) : r \in Crt_realloc(c, p, n, 0)}

Crt_eq_ByState(x, y) == x = y

Crt_eq(x, y) == TRUE

Crt_ne(x, y) == FALSE

\* ----------------------------------------------- InternalLuaCrtAllocator
Internal_default == [_G |-> NULL]

Internal_fromG(g) == [_G |-> g]

Internal_fromL(h) == [_G |-> G_of(h)]

Internal_copy(o) == [_G |-> o._G]

Internal_realloc_RecordAsUd(d, block, osize, nsize) ==
  IF d._G = NULL THEN Thrown
  ELSE Invoke(G[d._G].frealloc, d._G, block, osize, nsize)

Internal_realloc(d, block, osize, nsize) ==
  IF d._G = NULL THEN Thrown
  ELSE Invoke(G[d._G].frealloc, G[d._G].ud, block, osize, nsize)

Internal_allocate_result(r) ==
  IF r.exc = "crash"
  THEN [outcome |-> "crash", result |-> NULL, calls |-> r.calls]
  ELSE IF r.exc = "none" /\ r.ret # NULL
  THEN [outcome |-> "returned", result |-> r.ret, calls |-> r.calls]
  ELSE [outcome |-> "bad_alloc", result |-> NULL, calls |-> r.calls]

Internal_allocate(d, s, n) ==
  IF n <= SIZE_MAX \div s
  THEN {Internal_allocate_result(r) :
          r \in Internal_realloc(d, NULL, 0, (n * s) % 2^SizeBits)}
  ELSE {[outcome |-> "bad_alloc", result |-> NULL, calls |-> <<>>]}

Internal_deallocate_result(r) ==
  IF r.exc = "crash"
  THEN [outcome |-> "crash", result |-> NULL, calls |-> r.calls]
  ELSE IF r.exc = "bad_alloc"
  THEN [outcome |-> IF noexceptOn THEN "terminate" ELSE "bad_alloc",
        result |-> NULL, calls |-> r.calls]
  ELSE [outcome |-> "returned", result |-> NULL, calls |-> r.calls]

Internal_deallocate(d, s, p, n) ==
  {Internal_deallocate_result(r) : r \in Internal_realloc(d, p, n, 0)}

Internal_eq(x, y) == TRUE

Internal_ne(x, y) == FALSE

\* ------------------------------------------------------------- the trace
\* op: the operation; kind: the adapter it ran on; host: its host argument;
\* s, n, p: element size, element count and block of allocate/deallocate;
\* outcome: how it ended; result: what it returned; calls: the host
\* callback invocations it made; pre: the other operand of a comparison, or
\* for deallocate whether it directly follows the allocate that returned
\* its block.
Op(op, kind, host, s, n, p, o, pre) ==
  [op |-> op, kind |-> kind, host |-> host, s |-> s, n |-> n, p |-> p,
   outcome |-> o.outcome, result |-> o.result, calls |-> o.calls, pre |-> pre]

Done(result) == [outcome |-> "returned", result |-> result, calls |-> <<>>]

\* TRUE iff the operation performed last is the allocate, on the same kind of
\* adapter and element type, that returned block p for n elements.
Paired(kind, s, n, p) ==
  /\ last.op = "allocate"
  /\ last.kind = kind
  /\ last.outcome = "returned"
  /\ last.s = s
  /\ last.n = n
  /\ last.result = p

\* The program runs until terminate() or a fault.
Running == last.outcome \notin {"terminate", "crash"}

Init ==
  /\ G = [h \in Hosts |-> [frealloc |-> OwnFn(h), ud |-> OwnFn(h)]]
  /\ crt = LuaCrtAllocator_default
  /\ internal = Internal_default
  /\ noexceptOn \in BOOLEAN
  /\ validated = FALSE
  /\ last = Op("init", "none", NULL, 0, 0, NULL, Done(NULL), NULL)

\* lua_setallocf(L, f, ud): the host's allocator is replaced.
SetAllocF ==
  /\ Running
  /\ \E h \in Hosts : \E f \in {NULL, OwnFn(h), Profiler} :
       /\ G' = [G EXCEPT ![h] = [frealloc |-> f, ud |-> f]]
       /\ last' = Op("setallocf", "host", h, 0, 0, NULL, Done(NULL), NULL)
  /\ UNCHANGED <<crt, internal, noexceptOn, validated>>

CrtDefault ==
  /\ Running
  /\ crt' = LuaCrtAllocator_default
  /\ validated' = FALSE
  /\ last' = Op("default", "caching", NULL, 0, 0, NULL, Done(NULL), NULL)
  /\ UNCHANGED <<G, internal, noexceptOn>>

CrtConstruct ==
  /\ Running
  /\ \E h \in Hosts :
       /\ crt' = LuaCrtAllocator_from(h)
       /\ validated' = FALSE
       /\ last' = Op("construct", "caching", h, 0, 0, NULL, Done(NULL), NULL)
  /\ UNCHANGED <<G, internal, noexceptOn>>

CrtValidate ==
  /\ Running
  /\ \E h \in Hosts :
       /\ crt' = Crt_Validate(crt, h)
       /\ validated' = TRUE
       /\ last' = Op("Validate", "caching", h, 0, 0, NULL, Done("self"),
                     NULL)
  /\ UNCHANGED <<G, internal, noexceptOn>>

CrtAllocate ==
  /\ Running
  /\ \E s \in ElemSizes : \E n \in Counts(s) :
       \E o \in Crt_allocate(crt, s, n) :
         last' = Op("allocate", "caching", NULL, s, n, NULL, o, NULL)
  /\ UNCHANGED <<G, crt, internal, noexceptOn, validated>>

CrtDeallocate ==
  /\ Running
  /\ \E s \in ElemSizes, p \in Blocks : \E n \in Counts(s) :
       /\ n <= SIZE_MAX \div s
       /\ \E o \in Crt_deallocate(crt, s, p, n) :
            last' = Op("deallocate", "caching", NULL, s, n, p, o,
                       Paired("caching", s, n, p))
  /\ UNCHANGED <<G, crt, internal, noexceptOn, validated>>

\* The instances the adapter can be compared with: a default-constructed
\* one, one constructed from any host, a (rebound) copy of itself.
CrtOthers ==
  {LuaCrtAllocator_default, LuaCrtAllocator_copy(crt)} \cup
  {LuaCrtAllocator_from(h) : h \in Hosts}

CrtCompare ==
  /\ Running
  /\ \E y \in CrtOthers :
       last' = Op("compare", "caching", NULL, 0, 0, NULL,
                  Done(<<Crt_eq(crt, y), Crt_ne(crt, y)>>), y)
  /\ UNCHANGED <<G, crt, internal, noexceptOn, validated>>

InternalDefault ==
  /\ Running
  /\ internal' = Internal_default
  /\ last' = Op("default", "direct", NULL, 0, 0, NULL, Done(NULL), NULL)
  /\ UNCHANGED <<G, crt, noexceptOn, validated>>

InternalConstruct ==
  /\ Running
  /\ \E h \in Hosts :
       /\ internal' \in {Internal_fromL(h), Internal_fromG(G_of(h))}
       /\ last' = Op("construct", "direct", h, 0, 0, NULL, Done(NULL), NULL)
  /\ UNCHANGED <<G, crt, noexceptOn, validated>>

InternalAllocate ==
  /\ Running
  /\ \E s \in ElemSizes : \E n \in Counts(s) :
       \E o \in Internal_allocate(internal, s, n) :
         last' = Op("allocate", "direct", NULL, s, n, NULL, o, NULL)
  /\ UNCHANGED <<G, crt, internal, noexceptOn, validated>>

InternalDeallocate ==
  /\ Running
  /\ \E s \in ElemSizes, p \in Blocks : \E n \in Counts(s) :
       /\ n <= SIZE_MAX \div s
       /\ \E o \in Internal_deallocate(internal, s, p, n) :
            last' = Op("deallocate", "direct", NULL, s, n, p, o,
                       Paired("direct", s, n, p))
  /\ UNCHANGED <<G, crt, internal, noexceptOn, validated>>

InternalOthers ==
  {Internal_default, Internal_copy(internal)} \cup
  {Internal_fromL(h) : h \in Hosts}

InternalCompare ==
  /\ Running
  /\ \E y \in InternalOthers :
       last' = Op("compare", "direct", NULL, 0, 0, NULL,
                  Done(<<Internal_eq(internal, y), Internal_ne(internal, y)>>),
                  y)
  /\ UNCHANGED <<G, crt, internal, noexceptOn, validated>>

Next ==
  \/ SetAllocF
  \/ CrtDefault
  \/ CrtConstruct
  \/ CrtValidate
  \/ CrtAllocate
  \/ CrtDeallocate
  \/ CrtCompare
  \/ InternalDefault
  \/ InternalConstruct
  \/ InternalAllocate
  \/ InternalDeallocate
  \/ InternalCompare

Spec == Init /\ [][Next]_vars

TypeOK ==
  /\ G \in [Hosts -> [frealloc : {NULL} \cup Fns, ud : {NULL} \cup Fns]]
  /\ crt \in [l_alloc : {NULL} \cup Fns, l_ud : {NULL} \cup Fns]
  /\ internal \in [_G : {NULL} \cup Hosts]
  /\ noexceptOn \in BOOLEAN
  /\ validated \in BOOLEAN
  /\ Len(last.calls) <= 1

\* ============================================================ properties
IsCall(l) == l.op \in {"allocate", "deallocate"}

\* The function and opaque pointer an adapter of the given kind resolves in
\* the state (c, d, g): the cached pair, or the fields of the host record.
FnOf(kind, c, d, g) ==
  IF kind = "caching" THEN c.l_alloc
  ELSE IF d._G = NULL THEN NULL ELSE g[d._G].frealloc

UdOf(kind, c, d, g) ==
  IF kind = "caching" THEN c.l_ud
  ELSE IF d._G = NULL THEN NULL ELSE g[d._G].ud

\* allocate and deallocate leave G, crt and internal alone, so the pair the
\* last call resolved is the pair the adapter resolves now.
ResolvedFn == FnOf(last.kind, crt, internal, G)

ResolvedUd == UdOf(last.kind, crt, internal, G)

Fits(l) == l.n * l.s <= SIZE_MAX

\* The calls of l were all made through function f with opaque pointer ud.
CallsUse(l, f, ud) ==
  \A i \in DOMAIN l.calls : l.calls[i].fn = f /\ l.calls[i].ud = ud

\* C1: deallocate(p, n) of elements of size s, with a resolved callback,
\* invokes it exactly once with (opaque, p, n * s, 0): the old size is the
\* byte size, not the element count.
C1_DeallocatePassesByteSize ==
  (last.op = "deallocate" /\ ResolvedFn # NULL) =>
    last.calls = <<Call(ResolvedFn, ResolvedUd, last.p, last.n * last.s, 0,
                        NULL)>>

\* C2: when n * s exceeds the maximum size, allocate(n) raises OutOfMemory
\* without invoking the host callback, and no allocate ever hands a wrapped
\* byte size to the callback.
C2_OverflowRaisesWithoutCall ==
  last.op = "allocate" =>
    /\ ~Fits(last) => last.outcome = "bad_alloc" /\ last.calls = <<>>
    /\ \A i \in DOMAIN last.calls : last.calls[i].nsize = last.n * last.s

C2_Witness ==
  /\ last.op = "allocate"
  /\ ~Fits(last)
  /\ (last.n * last.s) % 2^SizeBits # 0
  /\ ResolvedFn # NULL
  /\ last.outcome = "bad_alloc"
  /\ last.calls = <<>>

\* allocate(n) with n * s within the maximum size and a resolved callback
\* that satisfied every request of nonzero size returns a block.
AllocateSucceeds(l, f, minN) ==
  ( /\ l.op = "allocate"
    /\ l.n >= minN
    /\ Fits(l)
    /\ f # NULL
    /\ \A i \in DOMAIN l.calls :
         l.calls[i].nsize > 0 => l.calls[i].ret # NULL ) =>
  ( /\ l.outcome = "returned"
    /\ l.result # NULL
    /\ Len(l.calls) = 1
    /\ l.result = l.calls[1].ret )

\* deallocate(p, n) right after the allocate(n), of at least minN elements,
\* that returned p: both end normally, and the two together make exactly
\* one call with nsize = 0, on block p.
RoundTrip(a, d, f, minN) ==
  ( /\ a.op = "allocate"
    /\ a.outcome = "returned"
    /\ a.n >= minN
    /\ f # NULL
    /\ d.op = "deallocate"
    /\ d.kind = a.kind
    /\ d.s = a.s
    /\ d.n = a.n
    /\ d.p = a.result ) =>
  ( /\ d.outcome = "returned"
    /\ LET both == a.calls \o d.calls
           frees == {i \in DOMAIN both : both[i].nsize = 0}
       IN /\ Cardinality(frees) = 1
          /\ \A i \in frees : both[i].block = a.result )

\* C3 as claimed: for every n, n = 0 included, with n * s within the
\* maximum size and a resolved callback that follows the host contract,
\* allocate(n) followed immediately by deallocate(p, n) succeeds and the
\* pair makes exactly one call with nsize = 0, on the block allocate returned.
C3_RoundTripFromZero ==
  [][ /\ AllocateSucceeds(last', FnOf(last'.kind, crt, internal, G), 0)
      /\ RoundTrip(last, last', FnOf(last.kind, crt, internal, G), 0)
    ]_vars

\* C3 amended: the same for every n >= 1.
C3_RoundTripFromOne ==
  [][ /\ AllocateSucceeds(last', FnOf(last'.kind, crt, internal, G), 1)
      /\ RoundTrip(last, last', FnOf(last.kind, crt, internal, G), 1)
    ]_vars

C3_Witness ==
  /\ last.op = "deallocate"
  /\ last.pre = TRUE
  /\ last.n >= 1
  /\ ResolvedFn # NULL
  /\ last.outcome = "returned"
  /\ Len(last.calls) = 1
  /\ last.calls[1].block = last.p
  /\ last.calls[1].nsize = 0

\* C4 as claimed: deallocate never ends in a raised error; with a null
\* cached callback it goes on to call through the null pointer.
C4_DeallocateNeverRaises ==
  last.op = "deallocate" => last.outcome \notin {"bad_alloc", "terminate"}

\* C4 amended: LuaCrtAllocator::deallocate with a null cached callback makes
\* no call: realloc throws bad_alloc, which ends the program where
\* deallocate is noexcept and reaches the caller where LUA_ALLOC_NOEXCEPT is
\* empty.  With a non-null cached callback it makes one call and returns.
C4_DeallocateGuarded ==
  (last.op = "deallocate" /\ last.kind = "caching") =>
    IF crt.l_alloc = NULL
    THEN /\ last.calls = <<>>
         /\ last.outcome = IF noexceptOn THEN "terminate" ELSE "bad_alloc"
    ELSE /\ Len(last.calls) = 1
         /\ last.outcome = "returned"

C4_Witness ==
  /\ last.op = "deallocate"
  /\ last.kind = "caching"
  /\ crt.l_alloc = NULL
  /\ last.outcome = "terminate"
  /\ last.calls = <<>>

\* The callback resolved by the last call is null: the cached l_alloc, or
\* the frealloc field of the host record a direct adapter refers to.
NullCallback ==
  IF last.kind = "caching" THEN crt.l_alloc = NULL
  ELSE internal._G # NULL /\ G[internal._G].frealloc = NULL

\* C5: allocate never calls through a null callback: when the callback it
\* resolves is null it raises OutOfMemory.
C5_NullCallbackRaises ==
  (last.op = "allocate" /\ NullCallback) =>
    last.outcome = "bad_alloc" /\ last.calls = <<>>

\* C6: Validate(H) overwrites both cached fields with the pair H resolves to
\* and returns the adapter itself; every later allocate and deallocate goes
\* through the cached pair, which nothing but a constructor or Validate
\* changes.
C6_ValidateRefreshes ==
  [][ /\ last'.op = "Validate" =>
           /\ crt'.l_alloc = G[last'.host].frealloc
           /\ crt'.l_ud = G[last'.host].ud
           /\ last'.result = "self"
      /\ (IsCall(last') /\ last'.kind = "caching") =>
           CallsUse(last', crt.l_alloc, crt.l_ud)
      /\ (last'.kind # "caching"
            \/ last'.op \notin {"default", "construct", "Validate"}) =>
           crt' = crt
    ]_vars

\* Constructed, then validated against a host with another pair, then used:
\* the call went through the pair of the host of Validate.
C6_Witness ==
  /\ IsCall(last)
  /\ last.kind = "caching"
  /\ validated
  /\ Len(last.calls) = 1
  /\ last.calls[1].fn = crt.l_alloc
  /\ last.calls[1].ud = crt.l_ud
  /\ \E h \in Hosts :
       G[h].frealloc \notin {NULL, last.calls[1].fn} /\ G[h].ud # last.calls[1].ud

\* C7: every call of the direct adapter goes through the callback and the
\* opaque pointer its host record holds at that moment; replacing the
\* host's allocator touches neither adapter, so the direct adapter follows
\* it with no refresh while the caching adapter keeps its cached pair.
C7_DirectReadsLiveRecord ==
  [][ /\ (IsCall(last') /\ last'.kind = "direct" /\ internal._G # NULL) =>
           CallsUse(last', G[internal._G].frealloc, G[internal._G].ud)
      /\ last'.op = "setallocf" => internal' = internal /\ crt' = crt
      /\ (IsCall(last') /\ last'.kind = "caching") =>
           CallsUse(last', crt.l_alloc, crt.l_ud) /\ crt' = crt
    ]_vars

\* The host's allocator was replaced after lua_newstate, and the direct
\* adapter called the replacement.
C7_Witness ==
  /\ IsCall(last)
  /\ last.kind = "direct"
  /\ internal._G # NULL
  /\ Len(last.calls) = 1
  /\ last.calls[1].fn = G[internal._G].frealloc
  /\ last.calls[1].ud = G[internal._G].ud
  /\ last.calls[1].fn # OwnFn(internal._G)
  /\ last.calls[1].ud # OwnFn(internal._G)

\* C8: allocate(n) with n >= 1, n * s within the maximum size and a
\* resolved non-null callback invokes it exactly once with
\* (opaque, null, 0, n * s) and returns the block it yields, if not null.
C8_AllocateCallsOnce ==
  (last.op = "allocate" /\ last.n >= 1 /\ Fits(last) /\ ResolvedFn # NULL) =>
    /\ Len(last.calls) = 1
    /\ last.calls[1].fn = ResolvedFn
    /\ last.calls[1].ud = ResolvedUd
    /\ last.calls[1].block = NULL
    /\ last.calls[1].osize = 0
    /\ last.calls[1].nsize = last.n * last.s
    /\ last.calls[1].ret # NULL =>
         last.outcome = "returned" /\ last.result = last.calls[1].ret

C8_Witness ==
  /\ last.op = "allocate"
  /\ last.n >= 2
  /\ Fits(last)
  /\ Len(last.calls) = 1
  /\ last.calls[1].nsize = last.n * last.s
  /\ last.outcome = "returned"
  /\ last.result = last.calls[1].ret
  /\ last.result # NULL

\* C9: when the host callback returns null to allocate, allocate raises
\* OutOfMemory, returns no block, has called once only, and leaves the
\* adapter as it was.
C9_NullBlockRaises ==
  [][ ( /\ last'.op = "allocate"
        /\ Len(last'.calls) >= 1
        /\ last'.calls[1].ret = NULL ) =>
      ( /\ last'.outcome = "bad_alloc"
        /\ last'.result = NULL
        /\ Len(last'.calls) = 1
        /\ crt' = crt
        /\ internal' = internal )
    ]_vars

C9_Witness ==
  /\ last.op = "allocate"
  /\ Len(last.calls) = 1
  /\ last.calls[1].nsize > 0
  /\ last.calls[1].ret = NULL
  /\ last.outcome = "bad_alloc"

\* C10: any two adapters of the same kind compare equal and not unequal,
\* whatever they were constructed from and whatever they resolve to.
C10_AlwaysEqual ==
  /\ \A x \in {crt} \cup CrtOthers, y \in {crt} \cup CrtOthers :
       Crt_eq(x, y) /\ ~Crt_ne(x, y)
  /\ \A x \in {internal} \cup InternalOthers,
        y \in {internal} \cup InternalOthers :
       Internal_eq(x, y) /\ ~Internal_ne(x, y)
  /\ last.op = "compare" => last.result = <<TRUE, FALSE>>

C10_Witness ==
  /\ last.op = "compare"
  /\ last.kind = "caching"
  /\ last.pre.l_alloc # crt.l_alloc
  /\ last.pre.l_alloc # NULL
  /\ crt.l_alloc # NULL
  /\ last.result = <<TRUE, FALSE>>
====
